---- MODULE Spec2Model ----
(***************************************************************************)
(* Model of the schedule generation engine of the course scheduling        *)
(* backend: backend/services/schedule_generator.py (ScheduleGenerator),    *)
(* the generate endpoint of backend/routes/schedules.py, the records of    *)
(* backend/models and the RateLimiter of backend/utils/helpers.py.         *)
(*                                                                         *)
(* Conventions.                                                            *)
(*   - A time of day is the number of minutes since midnight.              *)
(*   - Meeting.days is a Python str; it is modelled as the sequence of its *)
(*     characters, so that set(meeting.days) and len(meeting.days) are     *)
(*     what Python computes on the string.                                 *)
(*   - Optional numeric fields hold None when unset; attributes that the   *)
(*     record type does not declare (Section.credits) may be Absent, and   *)
(*     reading them raises AttributeError.                                 *)
(*   - Floating point scores are kept in hundredths of a point, credits in *)
(*     hundredths of a credit, weights in thousandths.                     *)
(***************************************************************************)
EXTENDS Integers, Sequences, FiniteSets, TLC

VARIABLES
    pc,                 \* position of the request being served
    entry,              \* "route" (POST /generate) or "direct" (generate_schedules called by a client of the service)
    request,            \* the ScheduleRequest
    catalog,            \* outcome of the upstream catalog lookup, per course id
    available_sections, \* course id -> list of Section (absent key = empty list)
    filtered_sections,  \* list of <<course id, sections>> in dict insertion order
    all_combinations,   \* list of combinations (list of Section)
    valid_schedules,    \* list of [sections, conflicts]
    scored_schedules,   \* list of ScheduleOption, in generation order, then sorted
    options,            \* GeneratedSchedule.options of the returned result
    exc,                \* exception in flight / observed by the caller of generate_schedules
    response,           \* what the HTTP caller of the route observes
    call,               \* arguments of a helper applied on its own
    ret,                \* its result
    previous,           \* what the same call of generate_schedules returned the time before
    requests,           \* RateLimiter.requests: identifier -> list of timestamps
    clock,              \* datetime.now(), in seconds
    threads             \* the calls of is_allowed in progress, one per thread

gen_vars == <<pc, entry, request, catalog, available_sections, filtered_sections,
              all_combinations, valid_schedules, scored_schedules, options, exc, response,
              previous>>
fn_vars == <<call, ret>>
lim_vars == <<requests, clock, threads>>
vars == <<pc, entry, request, catalog, available_sections, filtered_sections,
          all_combinations, valid_schedules, scored_schedules, options, exc, response,
          call, ret, previous, requests, clock, threads>>

----------------------------------------------------------------------------
(* Values standing for Python's None and for a missing attribute.          *)
None == 0 - 1
Absent == 0 - 2
Truthy(x) == x # None /\ x # Absent /\ x # 0

(* time(h, m) *)
T(h, m) == h * 60 + m

Max(a, b) == IF a >= b THEN a ELSE b
Min(a, b) == IF a <= b THEN a ELSE b
Abs(a) == IF a >= 0 THEN a ELSE 0 - a
Range(s) == {s[i] : i \in 1..Len(s)}

RECURSIVE SumSeq(_)
SumSeq(s) == IF s = <<>> THEN 0 ELSE Head(s) + SumSeq(Tail(s))

RECURSIVE Flatten(_)
Flatten(ss) == IF ss = <<>> THEN <<>> ELSE Head(ss) \o Flatten(Tail(ss))

(* floor(sqrt(n)) by bisection on lo..hi, lo*lo <= n < (hi+1)*(hi+1) *)
RECURSIVE SqrtBetween(_, _, _)
SqrtBetween(n, lo, hi) ==
    IF lo >= hi THEN lo
    ELSE LET mid == (lo + hi + 1) \div 2
         IN IF mid * mid <= n THEN SqrtBetween(n, mid, hi)
            ELSE SqrtBetween(n, lo, mid - 1)
ISqrt(n) == SqrtBetween(n, 0, 40000)

----------------------------------------------------------------------------
(* Time & conflict primitives                                              *)

(* set(meeting.days): the set of characters of the days string *)
DayChars(days) == Range(days)

(* The days of the week a days string denotes in the encoding of day_map   *)
(* (M, T, W, TH, F, SAT, SUN): "TTH" is Tuesday and Thursday.              *)
RECURSIVE DayCodes(_)
DayCodes(days) ==
    IF days = <<>> THEN {}
    ELSE IF Len(days) >= 2 /\ days[1] = "T" /\ days[2] = "H"
         THEN {"TH"} \cup DayCodes(SubSeq(days, 3, Len(days)))
    ELSE IF Len(days) >= 3 /\ days[1] = "S" /\ days[2] = "A" /\ days[3] = "T"
         THEN {"SAT"} \cup DayCodes(SubSeq(days, 4, Len(days)))
    ELSE IF Len(days) >= 3 /\ days[1] = "S" /\ days[2] = "U" /\ days[3] = "N"
         THEN {"SUN"} \cup DayCodes(SubSeq(days, 4, Len(days)))
    ELSE ({days[1]} \cap {"M", "T", "W", "F"}) \cup DayCodes(Tail(days))

(* Variant: closed on one side (touching end/start counts as overlap). *)
_timeslots_overlap_closed(timeslot1, timeslot2) ==
    /\ timeslot1.start_time <= timeslot2.end_time
    /\ timeslot2.start_time < timeslot1.end_time
_timeslots_overlap(timeslot1, timeslot2) ==
    /\ timeslot1.start_time < timeslot2.end_time
    /\ timeslot2.start_time < timeslot1.end_time

_sections_have_time_conflict(section1, section2) ==
    /\ section1.meetings # <<>>
    /\ section2.meetings # <<>>
    /\ \E i \in 1..Len(section1.meetings), j \in 1..Len(section2.meetings) :
          LET meeting1 == section1.meetings[i]
              meeting2 == section2.meetings[j]
          IN /\ DayChars(meeting1.days) \cap DayChars(meeting2.days) # {}
             /\ \E a \in 1..Len(meeting1.timeslots), b \in 1..Len(meeting2.timeslots) :
                   _timeslots_overlap(meeting1.timeslots[a], meeting2.timeslots[b])

----------------------------------------------------------------------------
(* Conflict detector                                                       *)

ScheduleConflict(id1, id2, type, details, severity) ==
    [section1_id |-> id1, section2_id |-> id2, conflict_type |-> type,
     details |-> details, severity |-> severity]

(* <<i, j>>, i < j <= n, in the order of the nested loops                  *)
(* for i, x in enumerate(xs): for y in xs[i+1:]                            *)
PairsAfter(i, n) == [k \in 1..(n - i) |-> <<i, i + k>>]
IndexPairs(n) == Flatten([i \in 1..n |-> PairsAfter(i, n)])

TimeConflictOf(sections, p) ==
    ScheduleConflict(sections[p[1]].id, sections[p[2]].id, "time",
                     <<"time", sections[p[1]].course_id, sections[p[2]].course_id>>,
                     "error")

_detect_time_conflicts(sections) ==
    LET Hit(p) == _sections_have_time_conflict(sections[p[1]], sections[p[2]])
        hits == SelectSeq(IndexPairs(Len(sections)), Hit)
    IN [k \in 1..Len(hits) |-> TimeConflictOf(sections, hits[k])]

(* Keys of a dict in insertion order: the distinct values of s, each at    *)
(* its first occurrence.                                                   *)
RECURSIVE FirstOccurrences(_)
FirstOccurrences(s) ==
    IF s = <<>> THEN <<>>
    ELSE LET init == FirstOccurrences(SubSeq(s, 1, Len(s) - 1))
             last == s[Len(s)]
         IN IF last \in Range(init) THEN init ELSE Append(init, last)

(* Variant: the test on the exam data forgotten. *)
HasExamDate_unchecked(section) == TRUE
(* section.final_exam and 'date' in section.final_exam and exam_date;      *)
(* exam_date is "" for a section without exam data.                        *)
HasExamDate(section) == section.exam_date # ""

_detect_exam_conflicts(sections) ==
    LET with_exam == SelectSeq(sections, HasExamDate)
        dates == FirstOccurrences([k \in 1..Len(with_exam) |-> with_exam[k].exam_date])
        OnDate(d) == LET Same(s) == s.exam_date = d IN SelectSeq(with_exam, Same)
        ConflictsOn(d) ==
            LET exam_sections == OnDate(d)
                pairs == IndexPairs(Len(exam_sections))
            IN IF Len(exam_sections) > 1
               THEN [k \in 1..Len(pairs) |->
                        ScheduleConflict(exam_sections[pairs[k][1]].id,
                                         exam_sections[pairs[k][2]].id,
                                         "final_exam", <<"final_exam", d>>, "error")]
               ELSE <<>>
    IN Flatten([k \in 1..Len(dates) |-> ConflictsOn(dates[k])])

(* professor_sections[professor.id].append(section), one entry per         *)
(* professor of each section, in iteration order                           *)
ProfessorEntries(sections) ==
    Flatten([i \in 1..Len(sections) |->
                [k \in 1..Len(sections[i].professors) |->
                    [pid |-> sections[i].professors[k].id, sid |-> sections[i].id]]])

_detect_professor_conflicts(sections) ==
    LET entries == ProfessorEntries(sections)
        ids == FirstOccurrences([k \in 1..Len(entries) |-> entries[k].pid])
        Of(p) == LET Same(e) == e.pid = p IN SelectSeq(entries, Same)
        ConflictOf(p) ==
            LET prof_sections == Of(p)
            IN IF Len(prof_sections) > 1
               THEN <<ScheduleConflict(prof_sections[1].sid, prof_sections[2].sid,
                                       "same_professor", <<"same_professor", p>>,
                                       "warning")>>
               ELSE <<>>
    IN Flatten([k \in 1..Len(ids) |-> ConflictOf(ids[k])])

_detect_conflicts(sections) ==
    _detect_time_conflicts(sections) \o _detect_exam_conflicts(sections)
        \o _detect_professor_conflicts(sections)

----------------------------------------------------------------------------
(* Quality scorer.  Scores are in hundredths of a point (100.0 = 10000).   *)

Points(n) == n * 100

(* sum(section.credits or 0 for section in sections), in credits *)
CreditsOr0(section) == IF Truthy(section.credits) THEN section.credits ELSE 0
TotalCredits(sections) == SumSeq([i \in 1..Len(sections) |-> CreditsOr0(sections[i])])

(* Reading section.credits raises AttributeError when the attribute was    *)
(* never supplied (Section does not declare it).                           *)
ReadsMissingCredits(sections) == \E i \in 1..Len(sections) : sections[i].credits = Absent

AllTimeslots(sections) ==
    Flatten([i \in 1..Len(sections) |->
        Flatten([j \in 1..Len(sections[i].meetings) |-> sections[i].meetings[j].timeslots])])

AllProfessors(sections) ==
    Flatten([i \in 1..Len(sections) |-> sections[i].professors])

(* Variant: the weights are taken as they come. *)
validate_weights_unchecked(preferences) == TRUE
(* validate_weights: abs(total - 1.0) < 0.01, weights in thousandths *)
validate_weights(preferences) ==
    Abs(preferences.workload_weight + preferences.rating_weight
        + preferences.time_preference_weight + preferences.professor_weight - 1000) < 10

(* (professor.rating / 5.0) * 100.0, rating in tenths *)
RatingScore100(rating) == rating * 200

(* The loop over one section's professors, from score `acc` on. *)
RECURSIVE ProfessorLoop(_, _, _)
ProfessorLoop(professors, preferences, acc) ==
    IF professors = <<>> THEN acc
    ELSE LET professor == Head(professors)
         IN IF professor.name \in preferences.preferred_professors THEN Points(100)
            ELSE IF professor.name \in preferences.avoided_professors THEN 0
            ELSE ProfessorLoop(Tail(professors), preferences,
                               IF Truthy(professor.rating)
                               THEN RatingScore100(professor.rating) ELSE acc)

HasProfessors(section) == section.professors # <<>>

_calculate_professor_preference_score(sections, preferences) ==
    LET with_profs == SelectSeq(sections, HasProfessors)
        total_score == SumSeq([i \in 1..Len(with_profs) |->
                          ProfessorLoop(with_profs[i].professors, preferences, Points(50))])
    IN IF sections = <<>> THEN Points(50)
       ELSE IF Len(with_profs) > 0 THEN total_score \div Len(with_profs)
       ELSE Points(50)

_calculate_time_preference_score(sections, preferences) ==
    LET slots == AllTimeslots(sections)
        Penalised(t) == t.start_time < T(8, 0) \/ t.end_time > T(21, 0)
    IN IF sections = <<>> THEN Points(50)
       ELSE Max(0, Points(75) - Points(10) * Len(SelectSeq(slots, Penalised)))

_calculate_workload_score(sections, preferences) ==
    LET total_credits == TotalCredits(sections)
    IN IF 12 <= total_credits /\ total_credits <= 18 THEN Points(100)
       ELSE IF total_credits < 12 THEN Points(50)
       ELSE Max(0, Points(100) - Points((total_credits - 18) * 5))

_calculate_rating_score(sections, preferences) ==
    LET Rated(p) == Truthy(p.rating)
        rated == SelectSeq(AllProfessors(sections), Rated)
        total_score == SumSeq([i \in 1..Len(rated) |-> RatingScore100(rated[i].rating)])
    IN IF Len(rated) > 0 THEN total_score \div Len(rated) ELSE Points(50)

_calculate_preference_score(sections, preferences) ==
    IF ~validate_weights(preferences) THEN Points(50)
    ELSE ( _calculate_professor_preference_score(sections, preferences) * preferences.professor_weight
         + _calculate_time_preference_score(sections, preferences) * preferences.time_preference_weight
         + _calculate_workload_score(sections, preferences) * preferences.workload_weight
         + _calculate_rating_score(sections, preferences) * preferences.rating_weight ) \div 1000

(* _calculate_preference_score reads section.credits in the workload score *)
PreferenceScoreRaises(sections, preferences) ==
    validate_weights(preferences) /\ ReadsMissingCredits(sections)

(* daily_credits: for every character of every days string of a section    *)
(* with meetings and credits, credits / len(meeting.days); in hundredths.  *)
DayShares(sections) ==
    Flatten([i \in 1..Len(sections) |->
        IF sections[i].meetings # <<>> /\ Truthy(sections[i].credits)
        THEN Flatten([j \in 1..Len(sections[i].meetings) |->
                 LET days == sections[i].meetings[j].days
                 IN [k \in 1..Len(days) |->
                        [day |-> days[k],
                         credit |-> (sections[i].credits * 100) \div Len(days)]]])
        ELSE <<>>])

(* AttributeError (credits never supplied) or ZeroDivisionError (a meeting *)
(* with an empty days string) in _calculate_workload_balance.              *)
WorkloadBalanceRaises(sections) ==
    \E i \in 1..Len(sections) :
        /\ sections[i].meetings # <<>>
        /\ \/ sections[i].credits = Absent
           \/ /\ Truthy(sections[i].credits)
              /\ \E j \in 1..Len(sections[i].meetings) : sections[i].meetings[j].days = <<>>

_calculate_workload_balance(sections) ==
    LET shares == DayShares(sections)
        days == FirstOccurrences([k \in 1..Len(shares) |-> shares[k].day])
        Credit(d) == LET On(e) == e.day = d
                         mine == SelectSeq(shares, On)
                     IN SumSeq([k \in 1..Len(mine) |-> mine[k].credit])
        n == Len(days)
        sum == SumSeq([k \in 1..n |-> Credit(days[k])])
        sumsq == SumSeq([k \in 1..n |-> Credit(days[k]) * Credit(days[k])])
        \* population standard deviation: sqrt(n*sumsq - sum^2) / n
        std_dev == ISqrt(n * sumsq - sum * sum) \div n
    IN IF sections = <<>> \/ n = 0 THEN 0
       ELSE Max(0, Points(10) - std_dev)

_get_time_block(time_obj) ==
    IF T(6, 0) <= time_obj /\ time_obj <= T(8, 59) THEN "early_morning"
    ELSE IF T(9, 0) <= time_obj /\ time_obj <= T(11, 59) THEN "morning"
    ELSE IF T(12, 0) <= time_obj /\ time_obj <= T(14, 59) THEN "midday"
    ELSE IF T(15, 0) <= time_obj /\ time_obj <= T(17, 59) THEN "afternoon"
    ELSE IF T(18, 0) <= time_obj /\ time_obj <= T(21, 59) THEN "evening"
    ELSE IF T(22, 0) <= time_obj /\ time_obj <= T(23, 59) THEN "late_night"
    ELSE "other"

_calculate_time_distribution_score(sections) ==
    LET slots == AllTimeslots(sections)
        blocks == {_get_time_block(slots[k].start_time) : k \in 1..Len(slots)}
    IN IF sections = <<>> THEN 0
       ELSE Points(Min(Cardinality(blocks) * 2, 10))

(* Variant: every conflict costs the same. *)
ConflictPenalty_flat(conflicts) == 25 * Len(conflicts)
ConflictPenalty(conflicts) ==
    SumSeq([k \in 1..Len(conflicts) |->
        IF conflicts[k].severity = "error" THEN 25
        ELSE IF conflicts[k].severity = "warning" THEN 10
        ELSE 0])

(* The score before the final clamp. *)
UnclampedScore(sections, conflicts, preferences) ==
    LET base_score == Points(100) - Points(ConflictPenalty(conflicts))
        final_score ==
            IF preferences.present
            THEN (base_score * 7 + _calculate_preference_score(sections, preferences) * 3) \div 10
            ELSE base_score
    IN final_score + _calculate_workload_balance(sections)
                   + _calculate_time_distribution_score(sections)

(* Variant: the final clamp forgotten. *)
_calculate_quality_score_unclamped(sections, conflicts, preferences) ==
    UnclampedScore(sections, conflicts, preferences)
_calculate_quality_score(sections, conflicts, preferences) ==
    Max(0, Min(Points(100), UnclampedScore(sections, conflicts, preferences)))

QualityScoreRaises(sections, preferences) ==
    \/ preferences.present /\ PreferenceScoreRaises(sections, preferences)
    \/ WorkloadBalanceRaises(sections)

----------------------------------------------------------------------------
(* Section filter, combination generator, ranking                          *)

(* available_sections and filtered_sections are dicts: lists of entries    *)
(* [course_id, sections] in insertion order, one entry per key.            *)
Keys(d) == {d[k].course_id : k \in 1..Len(d)}
Get(d, course_id) ==
    LET Mine(e) == e.course_id = course_id
        hit == SelectSeq(d, Mine)
    IN IF hit = <<>> THEN <<>> ELSE hit[1].sections

(* Variant: only the first timeslot of each meeting is looked at. *)
_violates_constraints_first_timeslot(section, constraints) ==
    \E i \in 1..Len(section.meetings) :
        /\ section.meetings[i].timeslots # <<>>
        /\ LET meeting == section.meetings[i]
               timeslot == meeting.timeslots[1]
           IN \/ constraints.no_early_morning /\ timeslot.start_time < T(9, 0)
              \/ constraints.no_late_evening /\ timeslot.end_time > T(20, 0)
              \/ /\ constraints.preferred_days # {}
                 /\ DayChars(meeting.days) \cap constraints.preferred_days = {}
_violates_constraints(section, constraints) ==
    \E i \in 1..Len(section.meetings) :
        \E k \in 1..Len(section.meetings[i].timeslots) :
            LET meeting == section.meetings[i]
                timeslot == meeting.timeslots[k]
            IN \/ constraints.no_early_morning /\ timeslot.start_time < T(9, 0)
               \/ constraints.no_late_evening /\ timeslot.end_time > T(20, 0)
               \/ /\ constraints.preferred_days # {}
                  /\ DayChars(meeting.days) \cap constraints.preferred_days = {}

IsFull(section) ==
    Truthy(section.capacity) /\ Truthy(section.enrolled)
        /\ section.enrolled >= section.capacity

_filter_sections(available, constraints, include_full_sections) ==
    LET Keep(section) ==
            /\ ~(~include_full_sections /\ IsFull(section))
            /\ ~(constraints.present /\ _violates_constraints(section, constraints))
        kept == [k \in 1..Len(available) |->
                    [course_id |-> available[k].course_id,
                     sections |-> SelectSeq(available[k].sections, Keep)]]
        NonEmpty(e) == e.sections # <<>>
    IN SelectSeq(kept, NonEmpty)

\* Variant: the first list varies fastest.
RECURSIVE Product_first_fastest(_)
Product_first_fastest(lists) ==
    IF lists = <<>> THEN << <<>> >>
    ELSE LET rest == Product_first_fastest(Tail(lists))
             head == Head(lists)
         IN Flatten([k \in 1..Len(rest) |-> [i \in 1..Len(head) |-> <<head[i]>> \o rest[k]]])
\* itertools.product over the per-course lists: the last list varies fastest
RECURSIVE Product(_)
Product(lists) ==
    IF lists = <<>> THEN << <<>> >>
    ELSE LET rest == Product(Tail(lists))
             head == Head(lists)
         IN Flatten([i \in 1..Len(head) |-> [k \in 1..Len(rest) |-> <<head[i]>> \o rest[k]]])

(* total_possible: the product of the lengths of the per-course lists *)
RECURSIVE TotalPossible(_)
TotalPossible(sections_list) ==
    IF sections_list = <<>> THEN 1
    ELSE Len(Head(sections_list)) * TotalPossible(Tail(sections_list))

(* max_combinations=1000, the argument of the one call of _sample_combinations *)
max_combinations == 1000

(* random.choice(sections) for course c of sample k: the index that the    *)
(* generator in state `seed` draws among n sections.  The draws of one run *)
(* are a function of the generator's state; the state is not chosen by the *)
(* program.                                                                *)
RandomChoice(seed, k, c, n) == ((seed * (k + c) + k * k + c) % n) + 1

_sample_combinations(sections_list, cap, seed) ==
    LET total_possible == TotalPossible(sections_list)
        sample_size == Min(cap, total_possible \div 10)
    IN IF total_possible <= cap THEN Product(sections_list)
       ELSE [k \in 1..sample_size |->
               [c \in 1..Len(sections_list) |->
                   sections_list[c][RandomChoice(seed, k, c, Len(sections_list[c]))]]]

(* memory_error: whether building the list of the full product ran out of  *)
(* memory (MemoryError), which is the only way into _sample_combinations.  *)
_generate_section_combinations(filtered, memory_error, seed) ==
    LET sections_list == [k \in 1..Len(filtered) |-> filtered[k].sections]
    IN IF sections_list = <<>> THEN <<>>
       ELSE IF memory_error THEN _sample_combinations(sections_list, max_combinations, seed)
       ELSE Product(sections_list)

(* Variant: descending, but an element goes before its equals. *)
InsertDescUnstable(sorted, x) ==
    LET Larger(y) == y.quality_score > x.quality_score
        NotLarger(y) == y.quality_score <= x.quality_score
    IN SelectSeq(sorted, Larger) \o <<x>> \o SelectSeq(sorted, NotLarger)

(* list.sort(key=quality_score, reverse=True): stable, so an element goes  *)
(* after every earlier element whose score is not smaller.                 *)
InsertDesc(sorted, x) ==
    LET NotSmaller(y) == y.quality_score >= x.quality_score
        Smaller(y) == y.quality_score < x.quality_score
    IN SelectSeq(sorted, NotSmaller) \o <<x>> \o SelectSeq(sorted, Smaller)

RECURSIVE SortByScoreDesc(_)
SortByScoreDesc(s) ==
    IF s = <<>> THEN <<>>
    ELSE InsertDesc(SortByScoreDesc(SubSeq(s, 1, Len(s) - 1)), s[Len(s)])

(* Variant: no truncation. *)
TopAll(sorted, max_options) == sorted
(* scored_schedules[:request.max_options] *)
Top(sorted, max_options) == SubSeq(sorted, 1, Min(max_options, Len(sorted)))

(* The minimum-quality cutoff on the selected schedules.  hasattr() holds  *)
(* only when the extra attribute min_quality_score was supplied.           *)
ApplyMinQuality_strict(selected, constraints) ==
    IF constraints.present /\ constraints.min_quality_score # Absent
    THEN LET Good(o) == o.quality_score > Points(constraints.min_quality_score)
         IN SelectSeq(selected, Good)
    ELSE selected

ApplyMinQuality(selected, constraints) ==
    IF constraints.present /\ constraints.min_quality_score # Absent
    THEN LET Good(o) == o.quality_score >= Points(constraints.min_quality_score)
         IN SelectSeq(selected, Good)
    ELSE selected

(* _validate_request: the error code it raises, or "" *)
MissingCourses(req, available) ==
    LET Missing(c) == c \notin Keys(available) \/ Get(available, c) = <<>>
    IN SelectSeq(req.course_ids, Missing)

_validate_request(req, available) ==
    IF MissingCourses(req, available) # <<>> THEN "NO_SECTIONS_AVAILABLE"
    ELSE IF /\ req.constraints.present
            /\ Truthy(req.constraints.min_credits)
            /\ Truthy(req.constraints.max_credits)
            /\ req.constraints.min_credits > req.constraints.max_credits
         THEN "INVALID_CREDIT_CONSTRAINTS"
    ELSE ""

----------------------------------------------------------------------------
(* Inputs                                                                  *)

MaxSections == 2    \* sections supplied per course
MaxOptions == 2     \* request.max_options
MaxSeed == 3        \* states of the random generator
Seeds == 1..MaxSeed

Timeslot(start_time, end_time) == [start_time |-> start_time, end_time |-> end_time]
Meeting(days, timeslots) == [days |-> days, timeslots |-> timeslots]
Professor(id, name, rating) == [id |-> id, name |-> name, rating |-> rating]
Section(id, course_id, credits, capacity, enrolled, meetings, professors, exam_date) ==
    [id |-> id, course_id |-> course_id, credits |-> credits, capacity |-> capacity,
     enrolled |-> enrolled, meetings |-> meetings, professors |-> professors,
     exam_date |-> exam_date]

Ada == Professor(1, "Ada", 45)
Bob == Professor(2, "Bob", None)
Anon == Professor(None, "Staff", None)

(* The sections on offer, per course. *)
PoolA ==
    << Section("A1", "A", 3, 30, 10,
               <<Meeting(<<"M", "W">>, <<Timeslot(T(10, 0), T(10, 50))>>)>>, <<Ada>>, "d1"),
       Section("A2", "A", Absent, 20, 20,
               <<Meeting(<<"T">>, <<Timeslot(T(8, 0), T(8, 50))>>)>>, <<Anon>>, ""),
       Section("A3", "A", 4, None, None,
               <<Meeting(<<"T", "T", "H">>, <<Timeslot(T(10, 30), T(11, 20))>>)>>, <<>>, "d2") >>
PoolB ==
    << Section("B1", "B", 3, 30, 5,
               <<Meeting(<<"M", "W">>, <<Timeslot(T(10, 30), T(11, 20))>>)>>, <<Ada>>, "d1"),
       Section("B2", "B", 3, 10, 0,
               <<Meeting(<<"F">>, <<Timeslot(T(13, 0), T(14, 15))>>)>>, <<Bob, Ada>>, ""),
       Section("B3", "B", 12, 0, 0,
               <<Meeting(<<"T", "H">>, <<Timeslot(T(19, 0), T(20, 30))>>),
                 Meeting(<<>>, <<>>)>>, <<>>, "d2") >>
Pool(course_id) == IF course_id = "A" THEN PoolA ELSE PoolB

(* The sublists of s (order kept) of at most n elements. *)
RECURSIVE SubLists(_, _)
SubLists(s, n) ==
    IF s = <<>> \/ n = 0 THEN {<<>>}
    ELSE SubLists(Tail(s), n)
         \cup {<<Head(s)>> \o r : r \in SubLists(Tail(s), n - 1)}

(* A dict with one entry per course that has a non-empty list. *)
AsDict(a, b) ==
    (IF a = <<>> THEN <<>> ELSE <<[course_id |-> "A", sections |-> a]>>)
    \o (IF b = <<>> THEN <<>> ELSE <<[course_id |-> "B", sections |-> b]>>)

NoConstraints ==
    [present |-> FALSE, min_credits |-> None, max_credits |-> None,
     no_early_morning |-> FALSE, no_late_evening |-> FALSE, preferred_days |-> {},
     min_quality_score |-> Absent]
DefaultConstraints == [NoConstraints EXCEPT !.present = TRUE]
ConstraintChoices ==
    { NoConstraints,
      DefaultConstraints,
      [DefaultConstraints EXCEPT !.min_credits = 18, !.max_credits = 12],
      [DefaultConstraints EXCEPT !.min_credits = 3, !.max_credits = 0],
      [DefaultConstraints EXCEPT !.min_credits = 6, !.max_credits = 7],
      [DefaultConstraints EXCEPT !.min_credits = 0, !.max_credits = 5],
      [DefaultConstraints EXCEPT !.no_early_morning = TRUE],
      [DefaultConstraints EXCEPT !.no_late_evening = TRUE],
      [DefaultConstraints EXCEPT !.preferred_days = {"M", "W"}],
      [DefaultConstraints EXCEPT !.preferred_days = {"TH"}],
      [DefaultConstraints EXCEPT !.min_quality_score = 100],
      [DefaultConstraints EXCEPT !.min_quality_score = 97] }

NoPreferences ==
    [present |-> FALSE, workload_weight |-> 300, rating_weight |-> 300,
     time_preference_weight |-> 200, professor_weight |-> 200,
     preferred_professors |-> {}, avoided_professors |-> {}]
DefaultPreferences == [NoPreferences EXCEPT !.present = TRUE]
PreferenceChoices ==
    { NoPreferences,
      DefaultPreferences,
      [DefaultPreferences EXCEPT !.workload_weight = 200, !.rating_weight = 200],
      [DefaultPreferences EXCEPT !.workload_weight = 305],
      [DefaultPreferences EXCEPT !.preferred_professors = {"Ada"},
                                 !.avoided_professors = {"Bob"}] }

CourseIdChoices == { <<"A">>, <<"A", "B">> }

Requests ==
    [course_ids : CourseIdChoices, constraints : ConstraintChoices,
     preferences : PreferenceChoices, max_options : 1..MaxOptions,
     include_full_sections : BOOLEAN]

(* Outcomes of course_table_client.get_course_sections for one course:     *)
(*   ok      - data with a course node and its sections                    *)
(*   error   - CourseTableError (every failure of the call is wrapped)     *)
(*   missing - data without a "course" key, or a course with no sections   *)
CatalogOutcomes == {"ok", "error", "missing"}

NoException == [type |-> "", error_code |-> ""]
NoResponse == [status |-> 0, kind |-> ""]
NoCall == [op |-> ""]
NoReturn == [done |-> FALSE]
NoPrevious == [done |-> FALSE, options |-> <<>>]

----------------------------------------------------------------------------
(* The generate endpoint and generate_schedules, step by step              *)

GenIdle ==
    /\ pc = "idle"
    /\ entry = ""
    /\ request = [course_ids |-> <<>>, constraints |-> NoConstraints,
                  preferences |-> NoPreferences, max_options |-> 1,
                  include_full_sections |-> FALSE]
    /\ catalog = <<>>
    /\ available_sections = <<>>
    /\ filtered_sections = <<>>
    /\ all_combinations = <<>>
    /\ valid_schedules = <<>>
    /\ scored_schedules = <<>>
    /\ options = <<>>
    /\ exc = NoException
    /\ response = NoResponse
    /\ previous = NoPrevious

(* RateLimiter.__init__: no request recorded; no call of is_allowed yet. *)
LimiterIdle ==
    /\ requests = <<>>
    /\ clock = 0
    /\ threads = <<>>

Init ==
    /\ GenIdle
    /\ LimiterIdle
    /\ call = NoCall
    /\ ret = NoReturn

(* A client of the service calls generate_schedules with its own sections. *)
CallGenerateSchedules ==
    /\ pc = "idle"
    /\ \E req \in Requests, a \in SubLists(PoolA, MaxSections), b \in SubLists(PoolB, MaxSections) :
          /\ request' = req
          /\ available_sections' = AsDict(a, b)
    /\ entry' = "direct"
    /\ pc' = "validate"
    /\ UNCHANGED <<catalog, filtered_sections, all_combinations, valid_schedules,
                   scored_schedules, options, exc, response, call, ret,
                   previous, lim_vars>>

(* The client calls generate_schedules a second time with the same request *)
(* and the same available_sections, remembering the first result.          *)
CallAgain ==
    /\ pc = "returned"
    /\ ~previous.done
    /\ previous' = [done |-> TRUE, options |-> options]
    /\ filtered_sections' = <<>>
    /\ all_combinations' = <<>>
    /\ valid_schedules' = <<>>
    /\ scored_schedules' = <<>>
    /\ options' = <<>>
    /\ pc' = "validate"
    /\ UNCHANGED <<entry, request, catalog, available_sections, exc, response, call, ret,
                   lim_vars>>

(* POST /api/schedules/generate arrives; the catalog will answer as chosen. *)
PostGenerate ==
    /\ pc = "idle"
    /\ \E req \in Requests, outcome \in [1..2 -> CatalogOutcomes] :
          /\ request' = req
          /\ catalog' = [k \in 1..Len(req.course_ids) |-> outcome[k]]
          /\ Len(req.course_ids) = 1 => outcome[2] = "ok"
    /\ entry' = "route"
    /\ pc' = "fetch"
    /\ UNCHANGED <<available_sections, filtered_sections, all_combinations,
                   valid_schedules, scored_schedules, options, exc, response, call, ret,
                   previous, lim_vars>>

(* routes/schedules.py _parse_section_data: credits and rating are never   *)
(* passed to Section / Professor.                                          *)
_parse_section_data(section_data, course_id) ==
    [section_data EXCEPT
        !.course_id = course_id,
        !.credits = Absent,
        !.professors = [k \in 1..Len(section_data.professors) |->
                           [section_data.professors[k] EXCEPT !.rating = None]]]

(* A CourseTableError is caught, logged and the course skipped; a course   *)
(* without a "course" node or without sections gets no entry either.       *)
_get_available_sections(course_ids, outcomes) ==
    Flatten([k \in 1..Len(course_ids) |->
        IF outcomes[k] = "ok"
        THEN <<[course_id |-> course_ids[k],
                sections |-> [i \in 1..Len(Pool(course_ids[k])) |->
                                 _parse_section_data(Pool(course_ids[k])[i], course_ids[k])]]>>
        ELSE <<>>])

Fetch ==
    /\ pc = "fetch"
    /\ available_sections' = _get_available_sections(request.course_ids, catalog)
    /\ pc' = "validate"
    /\ UNCHANGED <<entry, request, catalog, filtered_sections, all_combinations,
                   valid_schedules, scored_schedules, options, exc, response, call, ret,
                   previous, lim_vars>>

Validate ==
    /\ pc = "validate"
    /\ LET code == _validate_request(request, available_sections)
       IN IF code # ""
          THEN /\ exc' = [type |-> "ScheduleGeneratorError", error_code |-> code]
               /\ pc' = "except"
          ELSE /\ pc' = "filter"
               /\ UNCHANGED exc
    /\ UNCHANGED <<entry, request, catalog, available_sections, filtered_sections,
                   all_combinations, valid_schedules, scored_schedules, options,
                   response, call, ret,
                   previous, lim_vars>>

Filter ==
    /\ pc = "filter"
    /\ filtered_sections' = _filter_sections(available_sections, request.constraints,
                                           request.include_full_sections)
    /\ pc' = "combine"
    /\ UNCHANGED <<entry, request, catalog, available_sections, all_combinations,
                   valid_schedules, scored_schedules, options, exc, response, call, ret,
                   previous, lim_vars>>

Combine ==
    /\ pc = "combine"
    /\ \E memory_error \in BOOLEAN, seed \in Seeds :
          all_combinations' = _generate_section_combinations(filtered_sections,
                                                             memory_error, seed)
    /\ pc' = "detect"
    /\ UNCHANGED <<entry, request, catalog, available_sections, filtered_sections,
                   valid_schedules, scored_schedules, options, exc, response, call, ret,
                   previous, lim_vars>>

(* Lines 110-116: a combination is kept when it has no conflict at all, or *)
(* when the request has no constraints object.                             *)
KeepCombinations(combinations, constraints) ==
    LET WithConflicts(c) == [sections |-> c, conflicts |-> _detect_conflicts(c)]
        all == [k \in 1..Len(combinations) |-> WithConflicts(combinations[k])]
        Kept(v) == v.conflicts = <<>> \/ ~constraints.present
    IN SelectSeq(all, Kept)

Detect ==
    /\ pc = "detect"
    /\ valid_schedules' = KeepCombinations(all_combinations, request.constraints)
    /\ pc' = "score"
    /\ UNCHANGED <<entry, request, catalog, available_sections, filtered_sections,
                   all_combinations, scored_schedules, options, exc, response, call, ret,
                   previous, lim_vars>>

ScheduleOption(v, preferences) ==
    [sections |-> v.sections,
     total_credits |-> TotalCredits(v.sections),
     quality_score |-> _calculate_quality_score(v.sections, v.conflicts, preferences),
     conflicts |-> [k \in 1..Len(v.conflicts) |-> v.conflicts[k].details]]

(* Building a ScheduleOption fails when scoring raises, when section.credits *)
(* cannot be read, or when the score is outside the field's [0, 100].        *)
ScheduleOptionRaises(v, preferences) ==
    \/ QualityScoreRaises(v.sections, preferences)
    \/ ReadsMissingCredits(v.sections)
    \/ _calculate_quality_score(v.sections, v.conflicts, preferences) < 0
    \/ _calculate_quality_score(v.sections, v.conflicts, preferences) > Points(100)

Score ==
    /\ pc = "score"
    /\ IF \E k \in 1..Len(valid_schedules) :
             ScheduleOptionRaises(valid_schedules[k], request.preferences)
       THEN /\ exc' = [type |-> "Exception", error_code |-> ""]
            /\ pc' = "except"
            /\ UNCHANGED scored_schedules
       ELSE /\ scored_schedules' = [k \in 1..Len(valid_schedules) |->
                                       ScheduleOption(valid_schedules[k], request.preferences)]
            /\ pc' = "rank"
            /\ UNCHANGED exc
    /\ UNCHANGED <<entry, request, catalog, available_sections, filtered_sections,
                   all_combinations, valid_schedules, options, response, call, ret,
                   previous, lim_vars>>

(* Lines 142-175: sort in place, select, cut off, return the result. *)
Rank ==
    /\ pc = "rank"
    /\ scored_schedules' = SortByScoreDesc(scored_schedules)
    /\ options' = ApplyMinQuality(Top(SortByScoreDesc(scored_schedules), request.max_options),
                                  request.constraints)
    /\ pc' = IF entry = "route" THEN "respond" ELSE "returned"
    /\ UNCHANGED <<entry, request, catalog, available_sections, filtered_sections,
                   all_combinations, valid_schedules, exc, response, call, ret,
                   previous, lim_vars>>

(* Lines 177-182: except Exception, whatever was raised inside the try. *)
WrapException(e) == [type |-> "ScheduleGeneratorError", error_code |-> "GENERATION_FAILED"]

Except ==
    /\ pc = "except"
    /\ exc' = WrapException(exc)
    /\ pc' = IF entry = "route" THEN "respond" ELSE "raised"
    /\ UNCHANGED <<entry, request, catalog, available_sections, filtered_sections,
                   all_combinations, valid_schedules, scored_schedules, options,
                   response, call, ret,
                   previous, lim_vars>>

(* generate_schedule, lines 97-129: the HTTP response *)
HttpResponse(e) ==
    IF e.type = "" THEN [status |-> 200, kind |-> "GeneratedSchedule"]
    ELSE IF e.type = "ScheduleGeneratorError"
         THEN IF e.error_code = "NO_SECTIONS_AVAILABLE"
              THEN [status |-> 404, kind |-> "no_sections_available"]
              ELSE IF e.error_code = "INVALID_CREDIT_CONSTRAINTS"
              THEN [status |-> 400, kind |-> "invalid_credit_constraints"]
              ELSE [status |-> 500, kind |-> "schedule_generation_failed"]
    ELSE IF e.type = "CourseTableError"
         THEN [status |-> 502, kind |-> "course_service_error"]
    ELSE [status |-> 500, kind |-> "internal_server_error"]

Respond ==
    /\ pc = "respond"
    /\ response' = HttpResponse(exc)
    /\ pc' = "responded"
    /\ UNCHANGED <<entry, request, catalog, available_sections, filtered_sections,
                   all_combinations, valid_schedules, scored_schedules, options, exc,
                   call, ret,
                   previous, lim_vars>>

(* _calculate_quality_score applied on its own to a combination, a list   *)
(* of conflicts and a preferences object.                                  *)
MaxErrors == 6      \* error conflicts in a conflict list handed to the scorer
MaxWarnings == 2    \* warning conflicts in it

ConflictList(errors, warnings) ==
    [k \in 1..(errors + warnings) |->
        ScheduleConflict("x", "y", IF k <= errors THEN "time" ELSE "same_professor",
                         <<>>, IF k <= errors THEN "error" ELSE "warning")]

ScoredCombinations ==
    {a \o b : a \in SubLists(PoolA, 1), b \in SubLists(PoolB, 2)}

CalculateQualityScoreCall ==
    /\ pc = "idle"
    /\ call = NoCall
    /\ \E sections \in ScoredCombinations, errors \in 0..MaxErrors,
          warnings \in 0..MaxWarnings, preferences \in PreferenceChoices :
          /\ call' = [op |-> "_calculate_quality_score", sections |-> sections,
                      conflicts |-> ConflictList(errors, warnings),
                      preferences |-> preferences]
          /\ ret' = IF QualityScoreRaises(sections, preferences)
                    THEN [done |-> TRUE, raised |-> TRUE, value |-> 0]
                    ELSE [done |-> TRUE, raised |-> FALSE,
                          value |-> _calculate_quality_score(sections,
                                        ConflictList(errors, warnings), preferences)]
    /\ pc' = "helper"
    /\ UNCHANGED <<entry, request, catalog, available_sections, filtered_sections,
                   all_combinations, valid_schedules, scored_schedules, options,
                   exc, response, previous, lim_vars>>

Next ==
    \/ CallGenerateSchedules
    \/ CallAgain
    \/ PostGenerate
    \/ Fetch
    \/ Validate
    \/ Filter
    \/ Combine
    \/ Detect
    \/ Score
    \/ Rank
    \/ Except
    \/ Respond
    \/ CalculateQualityScoreCall

Spec == Init /\ [][Next]_vars

----------------------------------------------------------------------------
(* _timeslots_overlap applied to two timeslots, in both orders             *)

MaxSlot == 3        \* times are 10:00 + 25 min * k, k in 0..MaxSlot
TimePoints == {T(10, 0) + 25 * k : k \in 0..MaxSlot}
Timeslots == {Timeslot(s, e) : s \in TimePoints, e \in TimePoints}

InitOverlap ==
    /\ GenIdle
    /\ LimiterIdle
    /\ call \in {[op |-> "_timeslots_overlap", a |-> a, b |-> b] :
                    a \in Timeslots, b \in Timeslots}
    /\ ret = NoReturn

TimeslotsOverlapCall ==
    /\ ~ret.done
    /\ ret' = [done |-> TRUE, ab |-> _timeslots_overlap(call.a, call.b),
               ba |-> _timeslots_overlap(call.b, call.a)]
    /\ UNCHANGED <<gen_vars, lim_vars, call>>

NextOverlap == TimeslotsOverlapCall

SpecOverlap == InitOverlap /\ [][NextOverlap]_vars

----------------------------------------------------------------------------
(* _detect_time_conflicts applied to a combination                         *)

MaxCombination == 3     \* sections in a combination handed to a detector

DaysChoices == { <<"M", "W">>, <<"T">>, <<"T", "H">>, <<>> }
TimeslotLists ==
    { <<>>,
      <<Timeslot(T(10, 0), T(10, 50))>>,
      <<Timeslot(T(10, 50), T(11, 40))>>,
      <<Timeslot(T(10, 0), T(10, 50)), Timeslot(T(10, 30), T(11, 20))>> }
MeetingChoices == {Meeting(d, ts) : d \in DaysChoices, ts \in TimeslotLists}

RECURSIVE SeqsUpTo(_, _)
SeqsUpTo(S, n) ==
    IF n = 0 THEN {<<>>}
    ELSE SeqsUpTo(S, n - 1) \cup {Append(q, x) : q \in SeqsUpTo(S, n - 1), x \in S}

(* No meeting, one meeting, or a Monday/Wednesday and a Thursday meeting. *)
MeetingLists ==
    {<<>>} \cup {<<m>> : m \in MeetingChoices}
    \cup { <<Meeting(<<"M", "W">>, <<Timeslot(T(10, 0), T(10, 50))>>),
             Meeting(<<"T", "H">>, <<Timeslot(T(10, 30), T(11, 20))>>)>> }

(* Section k of a combination: its own id and course. *)
TimedSection(k, meetings) ==
    Section(<<"s", k>>, <<"c", k>>, 3, None, None, meetings, <<>>, "")

TimedCombinations ==
    {[k \in 1..Len(ms) |-> TimedSection(k, ms[k])] :
        ms \in SeqsUpTo(MeetingLists, MaxCombination)}

InitTime ==
    /\ GenIdle
    /\ LimiterIdle
    /\ call \in {[op |-> "_detect_time_conflicts", sections |-> c] : c \in TimedCombinations}
    /\ ret = NoReturn

DetectTimeConflictsCall ==
    /\ ~ret.done
    /\ ret' = [done |-> TRUE, value |-> _detect_time_conflicts(call.sections)]
    /\ UNCHANGED <<gen_vars, lim_vars, call>>

NextTime == DetectTimeConflictsCall

SpecTime == InitTime /\ [][NextTime]_vars

----------------------------------------------------------------------------
(* _detect_exam_conflicts applied to a combination                         *)

(* "" stands for a section without final-exam data: final_exam None, a     *)
(* final_exam without 'date', or an empty date.                            *)
ExamDates == {"", "d1", "d2", "d3"}

ExamSection(k, exam_date) ==
    Section(<<"s", k>>, <<"c", k>>, 3, None, None, <<>>, <<>>, exam_date)

ExamCombinations ==
    {[k \in 1..Len(ds) |-> ExamSection(k, ds[k])] : ds \in SeqsUpTo(ExamDates, MaxCombination)}

InitExam ==
    /\ GenIdle
    /\ LimiterIdle
    /\ call \in {[op |-> "_detect_exam_conflicts", sections |-> c] : c \in ExamCombinations}
    /\ ret = NoReturn

DetectExamConflictsCall ==
    /\ ~ret.done
    /\ ret' = [done |-> TRUE, value |-> _detect_exam_conflicts(call.sections)]
    /\ UNCHANGED <<gen_vars, lim_vars, call>>

NextExam == DetectExamConflictsCall

SpecExam == InitExam /\ [][NextExam]_vars

----------------------------------------------------------------------------
(* _detect_professor_conflicts applied to a combination                    *)

Tba == Professor(None, "TBA", None)

ProfessorLists ==
    { <<>>, <<Ada>>, <<Bob>>, <<Ada, Bob>>, <<Ada, Ada>>, <<Anon>>, <<Tba>> }

TaughtSection(k, professors) ==
    Section(<<"s", k>>, <<"c", k>>, 3, None, None, <<>>, professors, "")

TaughtCombinations ==
    {[k \in 1..Len(ps) |-> TaughtSection(k, ps[k])] :
        ps \in SeqsUpTo(ProfessorLists, MaxCombination)}

InitProfessor ==
    /\ GenIdle
    /\ LimiterIdle
    /\ call \in {[op |-> "_detect_professor_conflicts", sections |-> c] :
                    c \in TaughtCombinations}
    /\ ret = NoReturn

DetectProfessorConflictsCall ==
    /\ ~ret.done
    /\ ret' = [done |-> TRUE, value |-> _detect_professor_conflicts(call.sections)]
    /\ UNCHANGED <<gen_vars, lim_vars, call>>

NextProfessor == DetectProfessorConflictsCall

SpecProfessor == InitProfessor /\ [][NextProfessor]_vars

----------------------------------------------------------------------------
(* _generate_section_combinations applied to filtered sections of given    *)
(* sizes                                                                   *)

(* Section i of course c; only its identity matters to the enumeration. *)
ListedSection(c, i) == [id |-> <<"s", c, i>>, course_id |-> <<"c", c>>]
ListedSections(c, n) == [i \in 1..n |-> ListedSection(c, i)]

(* Numbers of sections left per course by the filter. *)
SizeChoices == {1, 2, 3, 25, 41, 50}
CourseSizes ==
    {<<>>, <<11, 10, 10>>} \cup {<<a>> : a \in SizeChoices}
        \cup {<<a, b>> : a \in SizeChoices, b \in SizeChoices}

FilteredOfSizes(sizes) ==
    [c \in 1..Len(sizes) |-> [course_id |-> <<"c", c>>, sections |-> ListedSections(c, sizes[c])]]

InitCombinations ==
    /\ GenIdle
    /\ LimiterIdle
    /\ call \in {[op |-> "_generate_section_combinations", sizes |-> sizes,
                  filtered |-> FilteredOfSizes(sizes)] : sizes \in CourseSizes}
    /\ ret = NoReturn

GenerateSectionCombinationsCall ==
    /\ ~ret.done
    /\ \E memory_error \in BOOLEAN, seed \in Seeds :
          ret' = [done |-> TRUE, memory_error |-> memory_error,
                  value |-> _generate_section_combinations(call.filtered, memory_error, seed)]
    /\ UNCHANGED <<gen_vars, lim_vars, call>>

NextCombinations == GenerateSectionCombinationsCall

SpecCombinations == InitCombinations /\ [][NextCombinations]_vars

----------------------------------------------------------------------------
(* RateLimiter: calls of is_allowed running concurrently, one per thread.  *)
(* self.requests is a dict: a list of entries [identifier, times] in       *)
(* insertion order.  There is no lock in the class, so a thread may be     *)
(* preempted between any two accesses of self.requests.                    *)

max_requests == 1       \* RateLimiter(max_requests, ...)
window_seconds == 1     \* RateLimiter(..., window_seconds)
MaxCalls == 2           \* calls of is_allowed
MaxClock == 2           \* the clock runs from 0 to MaxClock

Identifiers == {"a", "b"}

HasKey(d, identifier) == \E k \in 1..Len(d) : d[k].identifier = identifier

(* d[identifier]; the caller has checked the key *)
Times(d, identifier) ==
    LET Mine(e) == e.identifier = identifier
    IN SelectSeq(d, Mine)[1].times

(* d[identifier] = times *)
SetItem(d, identifier, times) ==
    IF HasKey(d, identifier)
    THEN [k \in 1..Len(d) |->
             IF d[k].identifier = identifier THEN [d[k] EXCEPT !.times = times] ELSE d[k]]
    ELSE Append(d, [identifier |-> identifier, times |-> times])

(* del d[identifier] *)
DelItem(d, identifier) ==
    LET Others(e) == e.identifier # identifier
    IN SelectSeq(d, Others)

NewerThan_inclusive(times, cutoff) ==
    LET Newer(req_time) == req_time >= cutoff
    IN SelectSeq(times, Newer)

(* [req_time for req_time in times if req_time.timestamp() > cutoff] *)
NewerThan(times, cutoff) ==
    LET Newer(req_time) == req_time > cutoff
    IN SelectSeq(times, Newer)

Thread(identifier, now) ==
    [pc |-> "snapshot", identifier |-> identifier, now |-> now, keys |-> <<>>,
     filtered |-> <<>>, result |-> FALSE]

InitLimiter ==
    /\ GenIdle
    /\ LimiterIdle
    /\ call = NoCall
    /\ ret = NoReturn

(* time passes *)
Tick ==
    /\ clock < MaxClock
    /\ clock' = clock + 1
    /\ UNCHANGED <<gen_vars, fn_vars, requests, threads>>

(* is_allowed(identifier) is entered by a new thread: now = datetime.now() *)
IsAllowedEnter ==
    /\ Len(threads) < MaxCalls
    /\ \E identifier \in Identifiers :
          threads' = Append(threads, Thread(identifier, clock))
    /\ UNCHANGED <<gen_vars, fn_vars, requests, clock>>

(* _cleanup_old_requests: list(self.requests.keys()) *)
CleanupSnapshot(t) ==
    /\ threads[t].pc = "snapshot"
    /\ threads' = [threads EXCEPT ![t].keys = [k \in 1..Len(requests) |-> requests[k].identifier],
                                  ![t].pc = "filter"]
    /\ UNCHANGED <<gen_vars, fn_vars, requests, clock>>

(* the list comprehension over self.requests[identifier] for the next key  *)
(* of the snapshot; KeyError when the key is gone                          *)
CleanupFilter(t) ==
    /\ threads[t].pc = "filter"
    /\ threads' =
          IF threads[t].keys = <<>> THEN [threads EXCEPT ![t].pc = "check"]
          ELSE IF ~HasKey(requests, Head(threads[t].keys))
               THEN [threads EXCEPT ![t].pc = "KeyError"]
          ELSE [threads EXCEPT
                   ![t].filtered = NewerThan(Times(requests, Head(threads[t].keys)),
                                             threads[t].now - window_seconds),
                   ![t].pc = "store"]
    /\ UNCHANGED <<gen_vars, fn_vars, requests, clock>>

(* self.requests[identifier] = [...] *)
CleanupStore(t) ==
    /\ threads[t].pc = "store"
    /\ requests' = SetItem(requests, Head(threads[t].keys), threads[t].filtered)
    /\ threads' = [threads EXCEPT ![t].pc = "prune"]
    /\ UNCHANGED <<gen_vars, fn_vars, clock>>

(* if not self.requests[identifier]: del self.requests[identifier] *)
CleanupPrune(t) ==
    /\ threads[t].pc = "prune"
    /\ LET identifier == Head(threads[t].keys)
       IN IF ~HasKey(requests, identifier)
          THEN /\ threads' = [threads EXCEPT ![t].pc = "KeyError"]
               /\ UNCHANGED requests
          ELSE /\ requests' = IF Times(requests, identifier) = <<>>
                              THEN DelItem(requests, identifier) ELSE requests
               /\ threads' = [threads EXCEPT ![t].keys = Tail(threads[t].keys),
                                             ![t].pc = "filter"]
    /\ UNCHANGED <<gen_vars, fn_vars, clock>>

(* if identifier not in self.requests *)
CheckKey(t) ==
    /\ threads[t].pc = "check"
    /\ threads' = [threads EXCEPT ![t].pc =
                      IF HasKey(requests, threads[t].identifier) THEN "append" ELSE "create"]
    /\ UNCHANGED <<gen_vars, fn_vars, requests, clock>>

(* self.requests[identifier] = [] *)
CreateKey(t) ==
    /\ threads[t].pc = "create"
    /\ requests' = SetItem(requests, threads[t].identifier, <<>>)
    /\ threads' = [threads EXCEPT ![t].pc = "append"]
    /\ UNCHANGED <<gen_vars, fn_vars, clock>>

(* self.requests[identifier].append(now) *)
AppendNow(t) ==
    /\ threads[t].pc = "append"
    /\ IF ~HasKey(requests, threads[t].identifier)
       THEN /\ threads' = [threads EXCEPT ![t].pc = "KeyError"]
            /\ UNCHANGED requests
       ELSE /\ requests' = SetItem(requests, threads[t].identifier,
                                   Append(Times(requests, threads[t].identifier),
                                          threads[t].now))
            /\ threads' = [threads EXCEPT ![t].pc = "return"]
    /\ UNCHANGED <<gen_vars, fn_vars, clock>>

(* return len(self.requests[identifier]) <= self.max_requests *)
ReturnAllowed(t) ==
    /\ threads[t].pc = "return"
    /\ threads' =
          IF ~HasKey(requests, threads[t].identifier)
          THEN [threads EXCEPT ![t].pc = "KeyError"]
          ELSE [threads EXCEPT
                   ![t].result = Len(Times(requests, threads[t].identifier)) <= max_requests,
                   ![t].pc = "done"]
    /\ UNCHANGED <<gen_vars, fn_vars, requests, clock>>

NextLimiter ==
    \/ Tick
    \/ IsAllowedEnter
    \/ \E t \in 1..Len(threads) : CleanupSnapshot(t)
    \/ \E t \in 1..Len(threads) : CleanupFilter(t)
    \/ \E t \in 1..Len(threads) : CleanupStore(t)
    \/ \E t \in 1..Len(threads) : CleanupPrune(t)
    \/ \E t \in 1..Len(threads) : CheckKey(t)
    \/ \E t \in 1..Len(threads) : CreateKey(t)
    \/ \E t \in 1..Len(threads) : AppendNow(t)
    \/ \E t \in 1..Len(threads) : ReturnAllowed(t)

SpecLimiter == InitLimiter /\ [][NextLimiter]_vars

----------------------------------------------------------------------------
(* _filter_sections applied to one course with one section                 *)

(* <<capacity, enrolled>> *)
EnrolmentChoices ==
    { <<None, None>>, <<30, 10>>, <<20, 20>>, <<10, 12>>, <<0, 0>>, <<0, 5>>,
      <<10, None>>, <<None, 5>> }

FilterMeetingLists ==
    { <<>>,
      <<Meeting(<<"M", "W">>, <<Timeslot(T(10, 0), T(10, 50))>>)>>,
      <<Meeting(<<"M", "W">>, <<Timeslot(T(8, 0), T(8, 50))>>)>>,
      <<Meeting(<<"M", "W">>, <<Timeslot(T(9, 0), T(9, 50))>>)>>,
      <<Meeting(<<"M", "W">>, <<Timeslot(T(19, 0), T(20, 0))>>)>>,
      <<Meeting(<<"T", "H">>, <<Timeslot(T(19, 10), T(20, 1))>>)>>,
      <<Meeting(<<"M">>, <<Timeslot(T(10, 0), T(10, 50)), Timeslot(T(8, 59), T(9, 50))>>)>>,
      <<Meeting(<<"M">>, <<Timeslot(T(10, 0), T(10, 50))>>),
        Meeting(<<"T", "H">>, <<Timeslot(T(13, 0), T(13, 50)), Timeslot(T(19, 30), T(20, 30))>>)>>,
      <<Meeting(<<"F">>, <<>>)>> }

FilterConstraintChoices ==
    ConstraintChoices
        \cup {[DefaultConstraints EXCEPT !.no_early_morning = TRUE, !.no_late_evening = TRUE]}

FilteredSection(enrolment, meetings) ==
    Section("S1", "A", 3, enrolment[1], enrolment[2], meetings, <<>>, "")

InitFilter ==
    /\ GenIdle
    /\ LimiterIdle
    /\ call \in {[op |-> "_filter_sections",
                  section |-> FilteredSection(e, ms),
                  constraints |-> c,
                  include_full_sections |-> f] :
                    e \in EnrolmentChoices, ms \in FilterMeetingLists,
                    c \in FilterConstraintChoices, f \in BOOLEAN}
    /\ ret = NoReturn

FilterSectionsCall ==
    /\ ~ret.done
    /\ ret' = [done |-> TRUE,
               value |-> _filter_sections(<<[course_id |-> call.section.course_id,
                                             sections |-> <<call.section>>]>>,
                                          call.constraints, call.include_full_sections)]
    /\ UNCHANGED <<gen_vars, lim_vars, call>>

NextFilter == FilterSectionsCall

SpecFilter == InitFilter /\ [][NextFilter]_vars

----------------------------------------------------------------------------
(* _calculate_professor_preference_score applied to a combination          *)

Cy == Professor(3, "Cy", 30)

RankedProfessorLists ==
    { <<>>, <<Ada>>, <<Bob>>, <<Cy>>, <<Anon>>, <<Ada, Bob>>, <<Bob, Ada>>,
      <<Cy, Bob>>, <<Ada, Cy>>, <<Cy, Anon>> }

RankedCombinations ==
    {[k \in 1..Len(ps) |-> TaughtSection(k, ps[k])] :
        ps \in SeqsUpTo(RankedProfessorLists, 2)}

ProfessorPreferenceChoices ==
    { DefaultPreferences,
      [DefaultPreferences EXCEPT !.preferred_professors = {"Ada"},
                                 !.avoided_professors = {"Bob"}],
      [DefaultPreferences EXCEPT !.preferred_professors = {"Bob", "Cy"}],
      [DefaultPreferences EXCEPT !.avoided_professors = {"Ada", "Staff"}] }

InitProfessorPreference ==
    /\ GenIdle
    /\ LimiterIdle
    /\ call \in {[op |-> "_calculate_professor_preference_score", sections |-> c,
                  preferences |-> p] :
                    c \in RankedCombinations, p \in ProfessorPreferenceChoices}
    /\ ret = NoReturn

CalculateProfessorPreferenceScoreCall ==
    /\ ~ret.done
    /\ ret' = [done |-> TRUE,
               value |-> _calculate_professor_preference_score(call.sections,
                                                               call.preferences)]
    /\ UNCHANGED <<gen_vars, lim_vars, call>>

NextProfessorPreference == CalculateProfessorPreferenceScoreCall

SpecProfessorPreference == InitProfessorPreference /\ [][NextProfessorPreference]_vars

----------------------------------------------------------------------------
(* _calculate_preference_score applied to a combination and a preferences  *)
(* object                                                                  *)

Eve == Professor(4, "Eve", 50)

(* A 12-credit section taught by a professor rated 5.0. *)
Seminar ==
    Section("E1", "E", 12, 15, 3,
            <<Meeting(<<"W">>, <<Timeslot(T(14, 0), T(16, 30))>>)>>, <<Eve>>, "")

WeightedCombinations ==
    {a \o b \o e : a \in SubLists(PoolA, 1), b \in SubLists(PoolB, 1),
                   e \in {<<>>, <<Seminar>>}}

(* <<workload, rating, time_preference, professor>> weights, thousandths *)
WeightChoices ==
    { <<300, 300, 200, 200>>, <<305, 300, 200, 200>>, <<295, 300, 200, 200>>,
      <<505, 300, 0, 200>>, <<1000, 0, 0, 0>>, <<0, 0, 1000, 0>>,
      <<200, 200, 200, 200>>, <<310, 300, 200, 200>> }

WeightedPreferences ==
    {[DefaultPreferences EXCEPT !.workload_weight = w[1], !.rating_weight = w[2],
                                !.time_preference_weight = w[3], !.professor_weight = w[4],
                                !.preferred_professors = p[1],
                                !.avoided_professors = p[2]] :
        w \in WeightChoices, p \in {<<{}, {}>>, <<{"Ada"}, {"Bob"}>>, <<{"Eve"}, {}>>}}

InitPreference ==
    /\ GenIdle
    /\ LimiterIdle
    /\ call \in {[op |-> "_calculate_preference_score", sections |-> c, preferences |-> p] :
                    c \in WeightedCombinations, p \in WeightedPreferences}
    /\ ret = NoReturn

CalculatePreferenceScoreCall ==
    /\ ~ret.done
    /\ ret' = IF PreferenceScoreRaises(call.sections, call.preferences)
              THEN [done |-> TRUE, raised |-> TRUE, value |-> 0]
              ELSE [done |-> TRUE, raised |-> FALSE,
                    value |-> _calculate_preference_score(call.sections, call.preferences)]
    /\ UNCHANGED <<gen_vars, lim_vars, call>>

NextPreference == CalculatePreferenceScoreCall

SpecPreference == InitPreference /\ [][NextPreference]_vars

----------------------------------------------------------------------------
(* RateLimiter used by one caller at a time: each call of is_allowed runs  *)
(* to its return before the next one starts                                *)

MaxQuota == 2             \* RateLimiter(max_requests, ...) up to MaxQuota
MaxWindow == 2            \* RateLimiter(..., window_seconds) up to MaxWindow
MaxSequentialCalls == 4   \* calls of is_allowed in one run

(* _cleanup_old_requests(now) run without interruption *)
_cleanup_old_requests(d, now, window) ==
    LET filtered == [k \in 1..Len(d) |->
                        [d[k] EXCEPT !.times = NewerThan(d[k].times, now - window)]]
        NotEmpty(e) == e.times # <<>>
    IN SelectSeq(filtered, NotEmpty)

(* self.requests after is_allowed(identifier) called at now *)
RequestsAfter(d, identifier, now, window) ==
    LET cleaned == _cleanup_old_requests(d, now, window)
        present == IF HasKey(cleaned, identifier) THEN cleaned
                   ELSE SetItem(cleaned, identifier, <<>>)
    IN SetItem(present, identifier, Append(Times(present, identifier), now))

InitSequential ==
    /\ GenIdle
    /\ LimiterIdle
    /\ call \in {[op |-> "RateLimiter", max_requests |-> m, window_seconds |-> w] :
                    m \in 1..MaxQuota, w \in 1..MaxWindow}
    /\ ret = NoReturn

(* is_allowed(identifier), from datetime.now() to its return *)
is_allowed ==
    /\ Len(threads) < MaxSequentialCalls
    /\ \E identifier \in Identifiers :
          LET after == RequestsAfter(requests, identifier, clock, call.window_seconds)
          IN /\ requests' = after
             /\ threads' = Append(threads,
                    [Thread(identifier, clock) EXCEPT
                        !.pc = "done",
                        !.result = Len(Times(after, identifier)) <= call.max_requests])
    /\ UNCHANGED <<gen_vars, fn_vars, clock>>

NextSequential ==
    \/ Tick
    \/ is_allowed

SpecSequential == InitSequential /\ [][NextSequential]_vars

----------------------------------------------------------------------------
(* Properties                                                              *)

InRange(score) == 0 <= score /\ score <= Points(100)

(* The call of generate_schedules has ended: result returned or error raised *)
(* to its caller (the endpoint, on the route).                               *)
Returned == pc = "returned" \/ (pc \in {"respond", "responded"} /\ exc = NoException)
Raised == pc = "raised" \/ (pc \in {"respond", "responded"} /\ exc.type = "ScheduleGeneratorError")

(* C1: every quality score computed by _calculate_quality_score, and the   *)
(* quality_score of every ScheduleOption built or returned, is in [0,100]. *)
C1_ScoreInRange ==
    /\ (call.op = "_calculate_quality_score" /\ ~ret.raised) => InRange(ret.value)
    /\ \A k \in 1..Len(scored_schedules) : InRange(scored_schedules[k].quality_score)
    /\ \A k \in 1..Len(options) : InRange(options[k].quality_score)

(* A score whose penalties take it below zero before the clamp. *)
C1_Witness ==
    /\ call.op = "_calculate_quality_score"
    /\ ~ret.raised
    /\ UnclampedScore(call.sections, call.conflicts, call.preferences) < 0
    /\ ret.value = 0

(* Position of an option's combination in the order of generation. *)
GenIndex(o) == CHOOSE k \in 1..Len(valid_schedules) : valid_schedules[k].sections = o.sections

(* C2: the returned options are in non-increasing order of quality_score,  *)
(* and options of equal score are in the order they were generated.        *)
C2_SortedStable ==
    \A i, j \in 1..Len(options) :
        i < j =>
            /\ options[i].quality_score >= options[j].quality_score
            /\ options[i].quality_score = options[j].quality_score
                   => GenIndex(options[i]) < GenIndex(options[j])

(* Two returned options tie, and the sort had to move a better one forward. *)
C2_Witness ==
    /\ pc = "returned"
    /\ Len(options) >= 2
    /\ options[1].quality_score = options[2].quality_score
    /\ GenIndex(options[1]) > 1
    /\ Len(valid_schedules) > 2

(* C3: the result holds at most request.max_options options. *)
C3_AtMostMaxOptions == Len(options) <= request.max_options

(* More schedules were scored than asked for, and the result is cut to size. *)
C3_Witness ==
    /\ pc = "returned"
    /\ Len(scored_schedules) > request.max_options
    /\ Len(options) = request.max_options

CreditBoundsInverted(constraints) ==
    /\ constraints.present
    /\ constraints.min_credits # None
    /\ constraints.max_credits # None
    /\ constraints.min_credits > constraints.max_credits

(* C4: a call of generate_schedules with min_credits > max_credits (every  *)
(* requested course having sections) ends in an error whose kind, as the   *)
(* caller observes it, is INVALID_CREDIT_CONSTRAINTS.                      *)
C4_ErrorKindObserved ==
    ( /\ Returned \/ Raised
      /\ MissingCourses(request, available_sections) = <<>>
      /\ CreditBoundsInverted(request.constraints) )
        => Raised /\ exc.error_code = "INVALID_CREDIT_CONSTRAINTS"

(* Requested courses left without a section by the filter. *)
FilteredOut ==
    LET survivors == _filter_sections(available_sections, request.constraints,
                                    request.include_full_sections)
        Gone(c) == c \notin Keys(survivors)
    IN SelectSeq(request.course_ids, Gone)

(* C5: when every requested course had sections but the filter leaves one *)
(* of them with none, the call fails with NO_SECTIONS_AVAILABLE.           *)
C5_EmptyAfterFilterFails ==
    ( /\ Returned \/ Raised
      /\ _validate_request(request, available_sections) = ""
      /\ FilteredOut # <<>> )
        => Raised /\ exc.error_code = "NO_SECTIONS_AVAILABLE"

(* C6: a request with min_credits > max_credits, or naming a course        *)
(* without sections, never gets past validation: no filtering, no          *)
(* enumeration, no combination.                                            *)
C6_FailFast ==
    ( /\ pc \notin {"idle", "fetch", "helper"}
      /\ \/ CreditBoundsInverted(request.constraints)
         \/ MissingCourses(request, available_sections) # <<>> )
        => /\ pc \in {"validate", "except", "raised", "respond", "responded"}
           /\ filtered_sections = <<>>
           /\ all_combinations = <<>>

CatalogLookupFailed == \E k \in 1..Len(catalog) : catalog[k] # "ok"

(* C7: on the route, a failed catalog lookup (upstream error, not found)   *)
(* is answered with the catalog error kind, never with a schedule          *)
(* generation failure.                                                     *)
C7_CatalogErrorDistinct ==
    (pc = "responded" /\ CatalogLookupFailed)
        => response.kind = "course_service_error"

OneSectionPerCourse(sections, course_ids) ==
    /\ \A c \in Range(course_ids) :
          Cardinality({i \in 1..Len(sections) : sections[i].course_id = c}) = 1
    /\ \A i \in 1..Len(sections) : sections[i].course_id \in Range(course_ids)

(* C8: every enumerated combination and every returned option has exactly  *)
(* one section of each requested course and no other section.              *)
C8_OneSectionPerCourse ==
    /\ \A k \in 1..Len(all_combinations) :
          OneSectionPerCourse(all_combinations[k], request.course_ids)
    /\ \A k \in 1..Len(options) :
          OneSectionPerCourse(options[k].sections, request.course_ids)

(* C9: _timeslots_overlap is symmetric, and two timeslots of which one     *)
(* ends when the other starts do not overlap.                              *)
C9_OverlapSymmetricHalfOpen ==
    ret.done =>
        /\ ret.ab = ret.ba
        /\ call.a.end_time = call.b.start_time => ~ret.ab

(* Two proper timeslots that touch. *)
C9_Witness ==
    /\ ret.done
    /\ call.a.start_time < call.a.end_time
    /\ call.b.start_time < call.b.end_time
    /\ call.a.end_time = call.b.start_time
    /\ ~ret.ab /\ ~ret.ba

(* Two sections meet on a common day of the week at overlapping times. *)
MeetAtSameTime(section1, section2) ==
    \E i \in 1..Len(section1.meetings), j \in 1..Len(section2.meetings) :
        LET meeting1 == section1.meetings[i]
            meeting2 == section2.meetings[j]
        IN /\ DayCodes(meeting1.days) \cap DayCodes(meeting2.days) # {}
           /\ \E a \in 1..Len(meeting1.timeslots), b \in 1..Len(meeting2.timeslots) :
                 /\ meeting1.timeslots[a].start_time < meeting2.timeslots[b].end_time
                 /\ meeting2.timeslots[b].start_time < meeting1.timeslots[a].end_time

(* C10: _detect_time_conflicts reports exactly one time conflict of        *)
(* severity error for each unordered pair of sections that meet on a       *)
(* common day at overlapping times, and nothing else.                      *)
C10_OneTimeConflictPerPair ==
    ret.done =>
        /\ \A i, j \in 1..Len(call.sections) :
              i < j =>
                Cardinality({k \in 1..Len(ret.value) :
                                /\ ret.value[k].section1_id = call.sections[i].id
                                /\ ret.value[k].section2_id = call.sections[j].id})
                  = IF MeetAtSameTime(call.sections[i], call.sections[j]) THEN 1 ELSE 0
        /\ \A k \in 1..Len(ret.value) :
              /\ ret.value[k].conflict_type = "time"
              /\ ret.value[k].severity = "error"
              /\ \E i, j \in 1..Len(call.sections) :
                    /\ i < j
                    /\ ret.value[k].section1_id = call.sections[i].id
                    /\ ret.value[k].section2_id = call.sections[j].id

(* Two sections have a meeting each on a common day of the week. *)
ShareDay(section1, section2) ==
    \E i \in 1..Len(section1.meetings), j \in 1..Len(section2.meetings) :
        DayCodes(section1.meetings[i].days) \cap DayCodes(section2.meetings[j].days) # {}

(* C11: two sections whose meetings share no day of the week get no time   *)
(* conflict, whatever their timeslots (M, T, W, TH, F, SAT, SUN).          *)
C11_NoSharedDayNoTimeConflict ==
    ret.done =>
        \A i, j \in 1..Len(call.sections) :
            (i < j /\ ~ShareDay(call.sections[i], call.sections[j])) =>
                ~\E k \in 1..Len(ret.value) :
                    /\ ret.value[k].section1_id = call.sections[i].id
                    /\ ret.value[k].section2_id = call.sections[j].id

(* The sections of a combination whose final exam is on date d. *)
ExamOn(sections, d) == {i \in 1..Len(sections) : sections[i].exam_date = d}

(* C12: _detect_exam_conflicts reports, for every date shared by n >= 2    *)
(* sections, exactly one final_exam conflict of severity error per         *)
(* unordered pair of them (n*(n-1)/2 records), and no section without an   *)
(* exam date appears in a record.                                          *)
C12_OneExamConflictPerPair ==
    ret.done =>
        /\ \A d \in ExamDates \ {""} :
              LET n == Cardinality(ExamOn(call.sections, d))
              IN Cardinality({k \in 1..Len(ret.value) : ret.value[k].details = <<"final_exam", d>>})
                    = IF n >= 2 THEN (n * (n - 1)) \div 2 ELSE 0
        /\ \A i, j \in 1..Len(call.sections) :
              (/\ i < j
               /\ call.sections[i].exam_date # ""
               /\ call.sections[i].exam_date = call.sections[j].exam_date) =>
                Cardinality({k \in 1..Len(ret.value) :
                    {ret.value[k].section1_id, ret.value[k].section2_id}
                        = {call.sections[i].id, call.sections[j].id}}) = 1
        /\ \A k \in 1..Len(ret.value) :
              /\ ret.value[k].conflict_type = "final_exam"
              /\ ret.value[k].severity = "error"
              /\ \E i, j \in 1..Len(call.sections) :
                    /\ i # j
                    /\ call.sections[i].exam_date # ""
                    /\ call.sections[i].exam_date = call.sections[j].exam_date
                    /\ ret.value[k].section1_id = call.sections[i].id
                    /\ ret.value[k].section2_id = call.sections[j].id

(* Three sections with their exams on one date: three records. *)
C12_Witness ==
    /\ ret.done
    /\ \E d \in ExamDates \ {""} : Cardinality(ExamOn(call.sections, d)) = 3
    /\ Len(ret.value) = 3

(* The sections of a combination that list professor p. *)
TaughtBy(sections, p) == {i \in 1..Len(sections) : p \in Range(sections[i].professors)}

(* C13: _detect_professor_conflicts reports exactly one same_professor     *)
(* conflict of severity warning for each professor who teaches at least    *)
(* two of the sections, and none for a professor who teaches fewer.        *)
C13_OneConflictPerProfessor ==
    ret.done =>
        /\ Len(ret.value)
              = Cardinality({p \in Range(AllProfessors(call.sections)) :
                                Cardinality(TaughtBy(call.sections, p)) >= 2})
        /\ \A k \in 1..Len(ret.value) :
              /\ ret.value[k].conflict_type = "same_professor"
              /\ ret.value[k].severity = "warning"

(* A combination all of whose conflicts are warnings (at least one). *)
OnlyWarnings(conflicts) ==
    /\ conflicts # <<>>
    /\ \A k \in 1..Len(conflicts) : conflicts[k].severity = "warning"

(* C14: a combination whose only conflicts are warnings is kept as a valid *)
(* schedule, with or without a constraints object on the request.          *)
C14_WarningsNeverDisqualify ==
    pc \in {"score", "rank", "returned", "raised", "respond", "responded"} =>
        \A k \in 1..Len(all_combinations) :
            OnlyWarnings(_detect_conflicts(all_combinations[k])) =>
                \E v \in 1..Len(valid_schedules) :
                    valid_schedules[v].sections = all_combinations[k]

WeightSum(preferences) ==
    preferences.workload_weight + preferences.rating_weight
        + preferences.time_preference_weight + preferences.professor_weight

SeverityCount(conflicts, severity) ==
    Cardinality({k \in 1..Len(conflicts) : conflicts[k].severity = severity})

PositionIn(sections, x) == CHOOSE i \in 1..Len(sections) : sections[i] = x

(* Combination a comes before combination b in the nested iteration over   *)
(* the per-course lists (first course outermost).                          *)
NestedBefore(a, b, filtered) ==
    \E c \in 1..Len(filtered) :
        /\ \A d \in 1..(c - 1) : a[d] = b[d]
        /\ PositionIn(filtered[c].sections, a[c]) < PositionIn(filtered[c].sections, b[c])

C17_SamplingAboveCap ==
    ret.done =>
        LET sections_list == [c \in 1..Len(call.filtered) |-> call.filtered[c].sections]
            total == TotalPossible(sections_list)
        IN total > max_combinations =>
              /\ Len(ret.value) <= Min(max_combinations, total \div 10)
              /\ \A k \in 1..Len(ret.value) :
                    /\ Len(ret.value[k]) = Len(sections_list)
                    /\ \A c \in 1..Len(sections_list) :
                          ret.value[k][c] \in Range(sections_list[c])

(* The calls whose timestamp has been appended. *)
Recorded == {t \in 1..Len(threads) : threads[t].pc \in {"return", "done"}}

(* Number of occurrences of x in the list s. *)
Count(s, x) == Cardinality({k \in 1..Len(s) : s[k] = x})

(* C18: however the calls of is_allowed interleave, no call fails, no      *)
(* recorded request is lost while it is inside the window of every call,   *)
(* and at most max_requests calls of one identifier return true within     *)
(* one window.                                                             *)
C18_ConcurrentSafe ==
    /\ \A t \in 1..Len(threads) : threads[t].pc # "KeyError"
    /\ \A t \in Recorded :
          (\A u \in 1..Len(threads) : threads[u].now - window_seconds < threads[t].now)
              => /\ HasKey(requests, threads[t].identifier)
                 /\ Count(Times(requests, threads[t].identifier), threads[t].now)
                       >= Cardinality({u \in Recorded :
                                         /\ threads[u].identifier = threads[t].identifier
                                         /\ threads[u].now = threads[t].now})
    /\ \A t \in 1..Len(threads) :
          Cardinality({u \in 1..Len(threads) :
                          /\ threads[u].pc = "done" /\ threads[u].result
                          /\ threads[u].identifier = threads[t].identifier
                          /\ threads[t].now - window_seconds < threads[u].now
                          /\ threads[u].now <= threads[t].now}) <= max_requests

(* The filter left the course of the one section without an entry. *)
Dropped == ret.value = <<>>

(* C19: without constraints, _filter_sections drops a section exactly when *)
(* include_full_sections is false, enrolled and capacity are both present  *)
(* and enrolled >= capacity (capacity 0 included); with                    *)
(* include_full_sections true it never drops a section for being full.     *)
C19_FullSectionsDropped ==
    (ret.done /\ ~call.constraints.present) =>
        ( Dropped <=>
            /\ ~call.include_full_sections
            /\ call.section.capacity # None
            /\ call.section.enrolled # None
            /\ call.section.enrolled >= call.section.capacity )

SomeTimeslot(section, Test(_)) ==
    \E i \in 1..Len(section.meetings) :
        \E k \in 1..Len(section.meetings[i].timeslots) :
            Test(section.meetings[i].timeslots[k])

StartsBefore9(timeslot) == timeslot.start_time < 9 * 60
EndsAfter20(timeslot) == timeslot.end_time > 20 * 60

(* C20: a section (not dropped for being full, no preferred days) is       *)
(* dropped by the filter if and only if no_early_morning is set and one of *)
(* its timeslots starts before 09:00, or no_late_evening is set and one of *)
(* its timeslots ends after 20:00.                                         *)
C20_EarlyLateDropped ==
    ( /\ ret.done
      /\ call.constraints.present
      /\ call.constraints.preferred_days = {}
      /\ call.include_full_sections ) =>
        ( Dropped <=>
            \/ call.constraints.no_early_morning /\ SomeTimeslot(call.section, StartsBefore9)
            \/ call.constraints.no_late_evening /\ SomeTimeslot(call.section, EndsAfter20) )

(* A section dropped for a timeslot that is not the first of its meeting,  *)
(* its first timeslot being inside the allowed hours.                      *)
C20_Witness ==
    /\ ret.done
    /\ call.constraints.present
    /\ call.constraints.preferred_days = {}
    /\ call.include_full_sections
    /\ call.constraints.no_early_morning
    /\ ~call.constraints.no_late_evening
    /\ Len(call.section.meetings) = 1
    /\ Len(call.section.meetings[1].timeslots) = 2
    /\ ~StartsBefore9(call.section.meetings[1].timeslots[1])
    /\ StartsBefore9(call.section.meetings[1].timeslots[2])
    /\ Dropped

(* C21: with preferred_days set (and neither time flag), a section is       *)
(* dropped by the filter exactly when one of its meetings, with or without *)
(* timeslots, is on no preferred day of the week.                          *)
C21_PreferredDaysDropped ==
    ( /\ ret.done
      /\ call.constraints.present
      /\ call.constraints.preferred_days # {}
      /\ ~call.constraints.no_early_morning
      /\ ~call.constraints.no_late_evening
      /\ call.include_full_sections ) =>
        ( Dropped <=>
            \E i \in 1..Len(call.section.meetings) :
                DayCodes(call.section.meetings[i].days)
                    \cap call.constraints.preferred_days = {} )

(* C22: without preferences the quality score is                           *)
(* clamp(100 - 25 * errors - 10 * warnings + workload-balance bonus        *)
(* + time-distribution bonus, 0, 100); one more error conflict lowers the  *)
(* score before the clamp by exactly 25, one more warning by exactly 10.   *)
C22_ScoreWithoutPreferences ==
    ( /\ call.op = "_calculate_quality_score"
      /\ ~call.preferences.present
      /\ ~ret.raised ) =>
        LET errors == SeverityCount(call.conflicts, "error")
            warnings == SeverityCount(call.conflicts, "warning")
            bonuses == _calculate_workload_balance(call.sections)
                         + _calculate_time_distribution_score(call.sections)
            unclamped == UnclampedScore(call.sections, call.conflicts, call.preferences)
        IN /\ ret.value = Max(0, Min(Points(100),
                                     Points(100 - 25 * errors - 10 * warnings) + bonuses))
           /\ UnclampedScore(call.sections, ConflictList(errors + 1, warnings),
                             call.preferences) = unclamped - Points(25)
           /\ UnclampedScore(call.sections, ConflictList(errors, warnings + 1),
                             call.preferences) = unclamped - Points(10)

(* No preferences, conflicts of both severities, bonuses, and a score that *)
(* is not clamped.                                                         *)
C22_Witness ==
    /\ call.op = "_calculate_quality_score"
    /\ ~call.preferences.present
    /\ ~ret.raised
    /\ SeverityCount(call.conflicts, "error") >= 1
    /\ SeverityCount(call.conflicts, "warning") >= 1
    /\ _calculate_workload_balance(call.sections) > 0
    /\ _calculate_time_distribution_score(call.sections) > 0
    /\ 0 < ret.value /\ ret.value < Points(100)

(* The rating of the last rated professor of a list, or None. *)
RECURSIVE LastRating(_)
LastRating(professors) ==
    IF professors = <<>> THEN None
    ELSE IF Truthy(professors[Len(professors)].rating)
         THEN professors[Len(professors)].rating
    ELSE LastRating(SubSeq(professors, 1, Len(professors) - 1))

(* What a section with professors contributes to the professor score:     *)
(* 100 if any professor is preferred, else 0 if any is avoided, else the   *)
(* rating on the scale of 100, else 50.                                    *)
Contribution(section, preferences) ==
    IF \E k \in 1..Len(section.professors) :
          section.professors[k].name \in preferences.preferred_professors
    THEN Points(100)
    ELSE IF \E k \in 1..Len(section.professors) :
               section.professors[k].name \in preferences.avoided_professors
         THEN 0
    ELSE IF LastRating(section.professors) # None
         THEN LastRating(section.professors) * 200
    ELSE Points(50)

(* C23: the professor preference sub-score is the average, over the        *)
(* sections that have professors, of 100 if any professor of the section   *)
(* is preferred (whatever the order, even with another one avoided), 0 if  *)
(* none is preferred and one is avoided, else rating/5*100 or 50.          *)
C23_PreferredWins ==
    ret.done =>
        LET with_profs == SelectSeq(call.sections, HasProfessors)
            total == SumSeq([i \in 1..Len(with_profs) |->
                               Contribution(with_profs[i], call.preferences)])
        IN ret.value = IF with_profs = <<>> THEN Points(50)
                       ELSE total \div Len(with_profs)

(* The weights a SchedulePreferences object may hold (each in [0, 1]) and  *)
(* that sum to 1.0 within 0.01.                                            *)
WeightsAccepted(preferences) ==
    /\ \A w \in {preferences.workload_weight, preferences.rating_weight,
                 preferences.time_preference_weight, preferences.professor_weight} :
          0 <= w /\ w <= 1000
    /\ Abs(WeightSum(preferences) - 1000) < 10

(* C24: for preferences accepted by validate_weights the weighted          *)
(* preference sub-score of _calculate_preference_score is in [0, 100].     *)
C24_PreferenceScoreInRange ==
    (ret.done /\ WeightsAccepted(call.preferences) /\ ~ret.raised) => InRange(ret.value)

(* C25: credit bounds are hard filters: every option returned by           *)
(* generate_schedules has total_credits within the min_credits and         *)
(* max_credits that the constraints supply.                                *)
C25_CreditBoundsFilter ==
    (Returned /\ request.constraints.present) =>
        \A k \in 1..Len(options) :
            /\ (request.constraints.min_credits # None =>
                    options[k].total_credits >= request.constraints.min_credits)
            /\ (request.constraints.max_credits # None =>
                    options[k].total_credits <= request.constraints.max_credits)

(* The scored candidates that meet the configured minimum quality.         *)
MeetsThreshold(candidates) ==
    LET Good(o) == o.quality_score >= Points(request.constraints.min_quality_score)
    IN SelectSeq(candidates, Good)

ThresholdConfigured ==
    request.constraints.present /\ request.constraints.min_quality_score # Absent

(* C26: with a minimum-quality threshold configured, every returned option *)
(* scores at least the threshold, and the returned list is the first       *)
(* max_options entries of the descending-sorted candidates that meet it.   *)
C26_ThresholdAfterTruncation ==
    (Returned /\ ThresholdConfigured) =>
        /\ \A k \in 1..Len(options) :
              options[k].quality_score >= Points(request.constraints.min_quality_score)
        /\ options = SubSeq(MeetsThreshold(scored_schedules), 1,
                            Min(request.max_options, Len(MeetsThreshold(scored_schedules))))

(* A returned list from which the threshold removed one of the first       *)
(* max_options candidates and kept another.                                *)
C26_Witness ==
    /\ Returned
    /\ ThresholdConfigured
    /\ Len(options) > 0
    /\ \E k \in 1..Min(request.max_options, Len(scored_schedules)) :
          scored_schedules[k].quality_score < Points(request.constraints.min_quality_score)

(* The calls of is_allowed made so far for one identifier, allowed or not, *)
(* whose timestamp is newer than cutoff.                                   *)
CallsNewerThan(identifier, cutoff, upto) ==
    {u \in 1..upto : threads[u].identifier = identifier /\ threads[u].now > cutoff}

AllowedNewerThan(identifier, cutoff, upto) ==
    {u \in CallsNewerThan(identifier, cutoff, upto) : threads[u].result}

LastCall == threads[Len(threads)]

(* C27: after is_allowed(id) at time now, for every identifier exactly the *)
(* timestamps newer than now - window_seconds are stored (identifiers left *)
(* with none are removed), now is recorded for id, and the call returned   *)
(* true iff id then has at most max_requests timestamps; so at most        *)
(* max_requests calls of one identifier return true within one window.     *)
C27_SequentialLimit ==
    threads # <<>> =>
        /\ \A i \in Identifiers :
              LET kept == CallsNewerThan(i, LastCall.now - call.window_seconds, Len(threads))
              IN IF kept = {} THEN ~HasKey(requests, i)
                 ELSE /\ HasKey(requests, i)
                      /\ Len(Times(requests, i)) = Cardinality(kept)
                      /\ \A k \in 1..Len(Times(requests, i)) :
                            Times(requests, i)[k] > LastCall.now - call.window_seconds
        /\ Times(requests, LastCall.identifier)[Len(Times(requests, LastCall.identifier))]
              = LastCall.now
        /\ LastCall.result <=>
              Len(Times(requests, LastCall.identifier)) <= call.max_requests
        /\ \A t \in 1..Len(threads) :
              Cardinality(AllowedNewerThan(threads[t].identifier,
                                           threads[t].now - call.window_seconds, t))
                 <= call.max_requests

(* A call that evicted a timestamp exactly window_seconds old, and a call  *)
(* that was denied because the quota of the window was used up.            *)
C27_Witness ==
    /\ Len(threads) >= 3
    /\ \E t \in 1..Len(threads) : ~threads[t].result
    /\ \E t \in 1..Len(threads) :
          /\ threads[t].identifier = LastCall.identifier
          /\ threads[t].now = LastCall.now - call.window_seconds
    /\ LastCall.result

(* C28: a denied request does not consume quota: a call of is_allowed made *)
(* when window_seconds have elapsed since every allowed request of its     *)
(* identifier returns true, whatever calls were denied in the meantime.    *)
C28_DeniedNotCounted ==
    \A t \in 1..Len(threads) :
        AllowedNewerThan(threads[t].identifier,
                         threads[t].now - call.window_seconds, t - 1) = {}
            => threads[t].result

(* C29: every same_professor conflict reported for a combination names two *)
(* distinct sections, also when one section lists a professor twice or     *)
(* lists several professors without an id.                                 *)
C29_ConflictBetweenTwoSections ==
    ret.done =>
        \A k \in 1..Len(ret.value) : ret.value[k].section1_id # ret.value[k].section2_id

(* C30: a request that passes validation never ends in GENERATION_FAILED,  *)
(* whatever the shape of the Section records (no credits value, empty day  *)
(* string, no timeslots, no professors or exam data).                      *)
C30_NoGenerationFailed ==
    ( /\ Returned \/ Raised
      /\ _validate_request(request, available_sections) = ""
      /\ FilteredOut = <<>> )
        => Returned

====
